---- MODULE Spec2Model ----
(***************************************************************************)
(* Model of the telemetry pipeline of core-native:                         *)
(*   src/src/Logger.ts              LoggerImpl (the event buffer)          *)
(*   src/src/platform/bootstrap.tsx runBackgroundLoop / sendEventLogs      *)
(*                                                                         *)
(* JavaScript values are records [t, v]: t is the run-time type and v the  *)
(* text of the value (a TLA+ string, so truncation and concatenation are   *)
(* computed on real characters).  A Log's date is the logical time of its  *)
(* creation (new Date()), which makes every event distinguishable.         *)
(*                                                                         *)
(* Arrays are references: collect() without a limit returns this.logQueue  *)
(* itself, so a holder of that array sees later push() calls until         *)
(* emptyLastCollection() rebinds this.logQueue to a fresh slice.           *)
(*                                                                         *)
(* Two specifications:                                                     *)
(*   StoreSpec  LoggerImpl alone, its public operations called in any      *)
(*              order (addContext, info, warn, error, collect,             *)
(*              emptyLastCollection);                                      *)
(*   Spec       the background loop of bootstrap.tsx running against the   *)
(*              store while application code calls info.                   *)
(*                                                                         *)
(* sendEventLogs commits with app.logger.empty(); LoggerImpl defines no    *)
(* method of that name, its commit is emptyLastCollection().  The model    *)
(* takes empty() to be that commit.                                        *)
(***************************************************************************)
EXTENDS Integers, Sequences, FiniteSets, TLC

VARIABLES
    environmentContext,  \* LoggerImpl.environmentContext: <<key, value>> entries in insertion order
    logQueue,            \* LoggerImpl.logQueue
    collectPosition,     \* LoggerImpl.collectPosition
    loggerConfig,        \* app.loggerConfig
    loopPc,              \* position of the saga of runBackgroundLoop
    flights,             \* invocations of sendEventLogs suspended at `await ajax(...)`
    clock,               \* logical time, read by new Date()
    appendCalls,         \* number of info/warn/error calls made by application code
    cycles,              \* number of sendEventLogs invocations started
    ajaxCalls,           \* number of ajax(...) calls made
    delivered,           \* history: the batches the transport accepted
    capturedErrors,      \* failures handed to captureError (the process-wide handler)
    op,                  \* history: the operation that produced this state
    threw,               \* history: whether that operation raised to its caller
    lastError,           \* history: the failure the last rejected ajax call raised
    pending,             \* history: the snapshot returned by the last collect, until committed
    lastCommit,          \* history: the snapshot the last commit consumed, if there was one
    sinceSnapshot,       \* history: events pushed since the last collect
    onlyNetwork,         \* history: every ajax call settled so far failed with NetworkConnectionException
    pendingAtNetFail,    \* history: events in the buffer when an ajax call failed with NetworkConnectionException
    droppedEvents,       \* history: events discarded by the APIException branch
    drops,               \* history: per APIException give-up, the events discarded and the meta-event pushed
    chain,               \* history: how many decorated handlers ran, and what each layer of the last one saw
    lastArg              \* history: the argument of the last call (info of an append, maxSize of a collect)

vars == <<environmentContext, logQueue, collectPosition, loggerConfig, loopPc, flights,
          clock, appendCalls, cycles, ajaxCalls, delivered, capturedErrors, op, threw,
          lastError, pending, lastCommit, sinceSnapshot, onlyNetwork,
          pendingAtNetFail, droppedEvents, drops, chain, lastArg>>

loopVars == <<loggerConfig, loopPc, flights, cycles, ajaxCalls, delivered, capturedErrors,
              lastError, onlyNetwork, pendingAtNetFail, droppedEvents, drops, chain>>

----------------------------------------------------------------------------
(* Bounds of the model *)

MaxAppends == 2
MaxStoreAppends == 3
MaxCycles == 3
MaxSize == 3
MaxExtra == 2
MaxTruncAppends == 2
MaxRuns == 2

(* Program constants *)

MaxEntries == 20
MaxStringLength == 1000
LOGGER_ACTION == "@@framework/logger"

----------------------------------------------------------------------------
(* JavaScript values *)

Str(s) == [t |-> "string", v |-> s]
Undefined == [t |-> "undefined", v |-> ""]
Num(s) == [t |-> "number", v |-> s]
Fn(s) == [t |-> "function", v |-> s]
FnThrows(m) == [t |-> "throwing function", v |-> m]

Min(a, b) == IF a < b THEN a ELSE b
Range(s) == {s[i] : i \in 1..Len(s)}

\* String.prototype.substr(0, n)
substr(s, n) == SubSeq(s, 1, Min(Len(s), n))

Digits == <<"0", "1", "2", "3", "4", "5", "6", "7", "8", "9">>

\* Number.prototype.toString() / template-literal rendering of a non-negative integer
RECURSIVE toString(_)
toString(n) == IF n < 10 THEN Digits[n + 1] ELSE toString(n \div 10) \o Digits[(n % 10) + 1]

\* JSON.stringify of a string, of undefined and of null
JSON_stringify(x) ==
    IF x.t = "string" THEN Str("\"" \o x.v \o "\"")
    ELSE IF x.t = "undefined" THEN Undefined
    ELSE Str(x.v)

\* Index of key k in the entries of an object, 0 when absent
RECURSIVE IndexOfKey(_, _, _)
IndexOfKey(entries, k, i) ==
    IF i > Len(entries) THEN 0
    ELSE IF entries[i][1] = k THEN i
    ELSE IndexOfKey(entries, k, i + 1)

\* obj[k] = val: an existing key keeps its place, a new key goes last
SetKey(entries, k, val) ==
    LET i == IndexOfKey(entries, k, 1)
    IN  IF i = 0 THEN Append(entries, <<k, val>>)
        ELSE [entries EXCEPT ![i] = <<k, val>>]

\* {...a, ...b}
RECURSIVE Spread(_, _)
Spread(a, b) == IF b = <<>> THEN a ELSE Spread(SetKey(a, b[1][1], b[1][2]), Tail(b))

----------------------------------------------------------------------------
(* Inputs the operations are called with *)

\* platform/logger-context: the defaults environmentContext starts from
loggerContext == <<<<"platform", Str("ios")>>>>

ContextInputs ==
    { <<<<"session", Fn("s-1")>>, <<"device", FnThrows("no device")>>>> }

InfoInputs ==
    { <<<<"prevState", Str("background")>>>>,
      <<<<"skipped", Undefined>>, <<"kept", Str("x")>>>>,
      <<<<"count", Num("42")>>>> }

ErrorLogEntries ==
    { [action |-> "checkout", elapsedTime |-> 35, errorCode |-> Str("PAYMENT_DECLINED"),
       errorMessage |-> Str("card declined"), info |-> <<<<"orderId", Str("o-1")>>>>] }

ServerURL == "https://event-server/event"

NoException ==
    [class |-> "none", message |-> "", requestURL |-> "", originalErrorMessage |-> "",
     statusCode |-> 0, errorCode |-> Undefined, errorId |-> Undefined, responseData |-> Undefined]

NetworkConnectionException ==
    [NoException EXCEPT !.class = "NetworkConnectionException",
                        !.message = "failed to connect", !.requestURL = ServerURL,
                        !.originalErrorMessage = "Network request failed"]

APIException(statusCode, errorCode) ==
    [NoException EXCEPT !.class = "APIException", !.message = "rejected",
                        !.requestURL = ServerURL, !.statusCode = statusCode,
                        !.errorCode = errorCode, !.errorId = Str("e-7"),
                        !.responseData = Str("bad batch")]

JavaScriptException ==
    [NoException EXCEPT !.class = "JavaScriptException", !.message = "x is not a function"]

\* what a rejected ajax(...) promise can carry
TransportFailures ==
    { NetworkConnectionException,
      APIException(500, Undefined),
      APIException(400, Str("VALIDATION_ERROR")),
      JavaScriptException }

\* action handlers as a decorator receives them: the action's name, its masked
\* parameters, and what running the handler raises (NoException: it completes)
Handlers ==
    [actionName : {"checkout", "@@framework/init"},
     maskedParams : {Str("[]"), Str("[{\"password\":\"***\"}]")},
     raises : TransportFailures \cup {NoException},
     calls : {<<>>}]

\* the failure classes an outer decorator may recognize
OuterRecognized == {{}, {"APIException"}, {"JavaScriptException"}}

X10 == "xxxxxxxxxx"
X100 == X10 \o X10 \o X10 \o X10 \o X10 \o X10 \o X10 \o X10 \o X10 \o X10
X1000 == X100 \o X100 \o X100 \o X100 \o X100 \o X100 \o X100 \o X100 \o X100 \o X100

\* a string one character longer than appendLog's limit
Long == X1000 \o "y"

\* a context object of n string entries c1..cn
MakeContext(n) == [i \in 1..n |-> <<"c" \o toString(i), Str("v" \o toString(i))>>]

\* an info object of n entries k1..kn, those at the positions of undef undefined
MakeInfo(n, undef) ==
    [i \in 1..n |-> <<"k" \o toString(i),
                      IF i \in undef THEN Undefined ELSE Str("w" \o toString(i))>>]

\* contexts with more entries than appendLog keeps, and with values longer
\* than it keeps: a literal, a provider's return value, a provider's error message
LargeContextInputs ==
    { MakeContext(MaxEntries + MaxExtra),
      <<<<"c1", Str(Long)>>, <<"token", Fn(Long)>>, <<"device", FnThrows(Long)>>>> }

LargeInfoInputs ==
    { MakeInfo(MaxEntries + MaxExtra, {}),
      MakeInfo(MaxEntries + MaxExtra, {2}),
      <<<<"body", Str(Long)>>, <<"skipped", Undefined>>>> }

LargeErrorLogEntries ==
    { [action |-> "upload", elapsedTime |-> 0, errorCode |-> Str("UPLOAD_FAILED"),
       errorMessage |-> Str(Long), info |-> <<>>] }

----------------------------------------------------------------------------
(* LoggerImpl *)

\* errorToException(e).message
errorToExceptionMessage(value) ==
    IF value.t = "throwing function" THEN value.v ELSE "value is not a function"

\* the value appendLog stores for one environmentContext entry
ContextValue(value) ==
    IF value.t = "string" THEN Str(substr(value.v, MaxStringLength))
    ELSE IF value.t = "function" THEN Str(value.v)
    ELSE Str("ERR# " \o errorToExceptionMessage(value))

\* a first loop that copies every entry
CompleteContext_unbounded(entries, i, contextEntryLength, acc) ==
    [j \in 1..Len(entries) |-> <<entries[j][1], ContextValue(entries[j][2])>>]

\* first loop of appendLog
RECURSIVE CompleteContext(_, _, _, _)
CompleteContext(entries, i, contextEntryLength, acc) ==
    IF i > Len(entries) THEN acc
    ELSE IF contextEntryLength < MaxEntries
         THEN CompleteContext(entries, i + 1, contextEntryLength + 1,
                              SetKey(acc, entries[i][1], ContextValue(entries[i][2])))
         ELSE CompleteContext(entries, i + 1, contextEntryLength, acc)

\* second loop of appendLog: value.substr exists on strings only, any other
\* defined value makes the call raise a TypeError
RECURSIVE TrimInfo(_, _, _, _)
TrimInfo(entries, i, infoEntryLength, acc) ==
    IF i > Len(entries) THEN [threw |-> FALSE, info |-> acc]
    ELSE IF entries[i][2].t # "undefined" /\ infoEntryLength < MaxEntries
         THEN IF entries[i][2].t = "string"
              THEN TrimInfo(entries, i + 1, infoEntryLength + 1,
                            SetKey(acc, entries[i][1],
                                   Str(substr(entries[i][2].v, MaxStringLength))))
              ELSE [threw |-> TRUE, info |-> acc]
         ELSE TrimInfo(entries, i + 1, infoEntryLength, acc)

\* data.errorMessage?.substr(0, 1000)
TrimErrorMessage(m) == IF m.t = "string" THEN Str(substr(m.v, MaxStringLength)) ELSE m

\* appendLog(result, data): whether it raised, and the event it pushes otherwise
appendLog(result, data) ==
    LET trimmed == TrimInfo(data.info, 1, 0, <<>>)
    IN  [threw |-> trimmed.threw,
         event |-> [date |-> clock,
                    result |-> result,
                    context |-> CompleteContext(environmentContext, 1, 0, <<>>),
                    action |-> data.action,
                    info |-> trimmed.info,
                    errorCode |-> data.errorCode,
                    errorMessage |-> TrimErrorMessage(data.errorMessage),
                    elapsedTime |-> data.elapsedTime]]

\* the errorCode exception() derives
ExceptionErrorCode(ex) ==
    IF ex.class = "NetworkConnectionException" THEN "NETWORK_FAILURE"
    ELSE IF ex.class = "APIException"
         THEN IF ex.statusCode = 400 /\ ex.errorCode = Str("VALIDATION_ERROR")
              THEN "API_VALIDATION_ERROR"
              ELSE "API_ERROR_" \o toString(ex.statusCode)
    ELSE "JAVASCRIPT_ERROR"

\* an exception() that records every failure as an error
ExceptionIsWarning_never(ex) == FALSE

\* isWarning of exception()
ExceptionIsWarning(ex) ==
    IF ex.class = "NetworkConnectionException" THEN TRUE
    ELSE IF ex.class = "APIException"
         THEN ~(ex.statusCode = 400 /\ ex.errorCode = Str("VALIDATION_ERROR"))
    ELSE FALSE

Truthy(x) == x.t = "string" /\ x.v # ""

\* JSON.stringify(app.store.getState().app)
AppStateJSON == Str("{}")

\* the info mapping exception() builds from extra
ExceptionInfo(ex, extra) ==
    IF ex.class = "NetworkConnectionException"
    THEN SetKey(SetKey(extra, "requestURL", Str(ex.requestURL)),
                "originalErrorMessage", Str(ex.originalErrorMessage))
    ELSE IF ex.class = "APIException"
    THEN LET a == SetKey(SetKey(extra, "requestURL", Str(ex.requestURL)),
                         "responseData", JSON_stringify(ex.responseData))
             b == IF Truthy(ex.errorId) THEN SetKey(a, "apiErrorId", ex.errorId) ELSE a
         IN  IF Truthy(ex.errorCode) THEN SetKey(b, "apiErrorCode", ex.errorCode) ELSE b
    ELSE IF ex.class = "JavaScriptException"
    THEN SetKey(extra, "appState", AppStateJSON)
    ELSE extra

\* exception(exception, extra, action)
exception(ex, extra, act) ==
    appendLog(IF ExceptionIsWarning(ex) THEN "WARN" ELSE "ERROR",
              [action |-> act, errorCode |-> Str(ExceptionErrorCode(ex)),
               errorMessage |-> Str(ex.message), info |-> ExceptionInfo(ex, extra),
               elapsedTime |-> 0])

\* collect that records the position only when it cuts the buffer
collect_stale(maxSize) ==
    LET totalLength == Len(logQueue)
    IN  IF maxSize > 0 /\ maxSize < totalLength
        THEN [collectPosition |-> maxSize, logs |-> SubSeq(logQueue, 1, maxSize),
              aliased |-> FALSE]
        ELSE [collectPosition |-> collectPosition, logs |-> logQueue, aliased |-> TRUE]

\* collect that records the requested size when it returns the whole buffer
collect_requested(maxSize) ==
    LET totalLength == Len(logQueue)
    IN  IF maxSize > 0 /\ maxSize < totalLength
        THEN [collectPosition |-> maxSize, logs |-> SubSeq(logQueue, 1, maxSize),
              aliased |-> FALSE]
        ELSE [collectPosition |-> IF maxSize > 0 THEN maxSize ELSE totalLength,
              logs |-> logQueue, aliased |-> TRUE]

\* collect that cuts the buffer from its tail
collect_tail(maxSize) ==
    LET totalLength == Len(logQueue)
    IN  IF maxSize > 0 /\ maxSize < totalLength
        THEN [collectPosition |-> maxSize,
              logs |-> SubSeq(logQueue, totalLength - maxSize + 1, totalLength),
              aliased |-> FALSE]
        ELSE [collectPosition |-> totalLength, logs |-> logQueue, aliased |-> TRUE]

\* collect(maxSize): the new collectPosition, the array returned, and whether
\* that array is this.logQueue itself
collect(maxSize) ==
    LET totalLength == Len(logQueue)
    IN  IF maxSize > 0 /\ maxSize < totalLength
        THEN [collectPosition |-> maxSize, logs |-> SubSeq(logQueue, 1, maxSize),
              aliased |-> FALSE]
        ELSE [collectPosition |-> totalLength, logs |-> logQueue, aliased |-> TRUE]

\* a slice that returns an empty array
slice_clear(array, start) == <<>>

\* Array.prototype.slice(start)
slice(array, start) == SubSeq(array, start + 1, Len(array))

\* commits that clear the whole buffer, keep the last collected event, or
\* drop the result of the slice
emptyLastCollection_clear(queue, position) == <<>>
emptyLastCollection_offByOne(queue, position) ==
    IF position = 0 THEN queue ELSE SubSeq(queue, position, Len(queue))
emptyLastCollection_keep(queue, position) == queue

\* emptyLastCollection(): the new this.logQueue
emptyLastCollection(queue, position) == slice(queue, position)

\* app.logger.empty(), the commit sendEventLogs calls: removes every event
\* up to the recorded position
empty(queue, position) == emptyLastCollection(queue, position)

----------------------------------------------------------------------------
(* State machine *)

NoConfig == [set |-> FALSE, serverURL |-> ""]
Config == [set |-> TRUE, serverURL |-> ServerURL]
NoSnapshot == [has |-> FALSE, events |-> <<>>]
NoArg == <<>>
NoRun == [runs |-> 0, raised |-> NoException, seenByOuter |-> NoException,
          seenByCaller |-> NoException]

Init ==
    /\ environmentContext = loggerContext
    /\ logQueue = <<>>
    /\ collectPosition = 0
    /\ loggerConfig = NoConfig
    /\ loopPc = "boot"
    /\ flights = <<>>
    /\ clock = 0
    /\ appendCalls = 0
    /\ cycles = 0
    /\ ajaxCalls = 0
    /\ delivered = <<>>
    /\ capturedErrors = <<>>
    /\ op = "constructor"
    /\ threw = FALSE
    /\ lastError = NoException
    /\ pending = NoSnapshot
    /\ lastCommit = NoSnapshot
    /\ sinceSnapshot = <<>>
    /\ onlyNetwork = TRUE
    /\ pendingAtNetFail = {}
    /\ droppedEvents = {}
    /\ drops = <<>>
    /\ chain = NoRun
    /\ lastArg = NoArg

\* this.logQueue.push(event): every holder of the same array sees the event
Push(ev) ==
    /\ logQueue' = Append(logQueue, ev)
    /\ flights' = [i \in 1..Len(flights) |->
                     IF flights[i].aliased
                     THEN [flights[i] EXCEPT !.logs = Append(@, ev)]
                     ELSE flights[i]]
    /\ clock' = clock + 1
    /\ sinceSnapshot' = Append(sinceSnapshot, ev)

\* this.logQueue = ...: holders of the old array keep it, as it was
Rebound(fs) == [i \in 1..Len(fs) |-> [fs[i] EXCEPT !.aliased = FALSE]]

RemoveAt(s, i) == SubSeq(s, 1, i - 1) \o SubSeq(s, i + 1, Len(s))

\* addContext(context)
addContext(context) ==
    /\ environmentContext' = Spread(environmentContext, context)
    /\ op' = "addContext"
    /\ lastArg' = NoArg
    /\ threw' = FALSE
    /\ UNCHANGED <<logQueue, collectPosition, clock, appendCalls, pending, lastCommit,
                   sinceSnapshot>>
    /\ UNCHANGED loopVars

\* a call of info, warn or error by application code
LogCall(name, result, data) ==
    /\ appendCalls' = appendCalls + 1
    /\ op' = name
    /\ lastArg' = data.info
    /\ LET r == appendLog(result, data)
       IN  /\ threw' = r.threw
           /\ IF r.threw
              THEN UNCHANGED <<logQueue, flights, clock, sinceSnapshot>>
              ELSE Push(r.event)
    /\ UNCHANGED <<environmentContext, collectPosition, pending, lastCommit>>
    /\ UNCHANGED <<loggerConfig, loopPc, cycles, ajaxCalls, delivered, capturedErrors,
                   lastError, onlyNetwork, pendingAtNetFail, droppedEvents, drops, chain>>

\* info(action, info, elapsedTime) with elapsedTime left out
info(act, inf) ==
    LogCall("info", "OK",
            [action |-> act, info |-> inf, errorCode |-> Undefined,
             errorMessage |-> Undefined, elapsedTime |-> 0])

\* warn(data)
warn(data) == LogCall("warn", "WARN", data)

\* error(data)
error(data) == LogCall("error", "ERROR", data)

\* a call of collect(maxSize) by a user of the store
Collect(maxSize) ==
    /\ LET c == collect(maxSize)
       IN  /\ collectPosition' = c.collectPosition
           /\ pending' = [has |-> TRUE, events |-> c.logs]
    /\ sinceSnapshot' = <<>>
    /\ op' = "collect"
    /\ lastArg' = <<maxSize>>
    /\ threw' = FALSE
    /\ UNCHANGED <<environmentContext, logQueue, clock, appendCalls, lastCommit>>
    /\ UNCHANGED loopVars

\* a call of emptyLastCollection() by a user of the store
EmptyLastCollection ==
    /\ logQueue' = emptyLastCollection(logQueue, collectPosition)
    /\ pending' = NoSnapshot
    /\ lastCommit' = pending
    /\ op' = "emptyLastCollection"
    /\ lastArg' = NoArg
    /\ threw' = FALSE
    /\ UNCHANGED <<environmentContext, collectPosition, clock, appendCalls, sinceSnapshot>>
    /\ UNCHANGED loopVars

StoreNext ==
    \/ \E context \in ContextInputs : addContext(context)
    \/ appendCalls < MaxStoreAppends /\ \E inf \in InfoInputs : info("@@ACTIVE", inf)
    \/ appendCalls < MaxStoreAppends /\ \E data \in ErrorLogEntries : warn(data)
    \/ appendCalls < MaxStoreAppends /\ \E data \in ErrorLogEntries : error(data)
    \/ \E maxSize \in 0..MaxSize : Collect(maxSize)
    \/ EmptyLastCollection

StoreSpec == Init /\ [][StoreNext]_vars

----------------------------------------------------------------------------
(* Action handler decorators (part_001) *)

\* the app.logger.exception(...) call of a decorator's catch block
SilentCall(handler) ==
    [ex |-> handler.raises,
     extra |-> <<<<"actionPayload", handler.maskedParams>>, <<"isSilent", Str("true")>>>>,
     act |-> handler.actionName]

\* a decorator that logs the failure and raises it again
SilentOnNetworkConnectionError_rethrow(handler) ==
    IF handler.raises.class = "NetworkConnectionException"
    THEN [handler EXCEPT !.calls = Append(@, SilentCall(handler))]
    ELSE handler

\* a decorator that suppresses every failure
SilentOnNetworkConnectionError_any(handler) ==
    IF handler.raises.class # "none"
    THEN [handler EXCEPT !.raises = NoException, !.calls = Append(@, SilentCall(handler))]
    ELSE handler

\* SilentOnNetworkConnectionError() applied to a handler: the decorated handler,
\* with what running it raises and the logger calls it makes
SilentOnNetworkConnectionError(handler) ==
    IF handler.raises.class = "none" THEN handler
    ELSE IF handler.raises.class = "NetworkConnectionException"
         THEN [handler EXCEPT !.raises = NoException,
                              !.calls = Append(@, SilentCall(handler))]
         ELSE handler

\* a decorator written to the same pattern that recognizes the failure
\* classes in recognized
OuterDecorator(recognized, handler) ==
    IF handler.raises.class = "none" THEN handler
    ELSE IF handler.raises.class \in recognized
         THEN [handler EXCEPT !.raises = NoException,
                              !.calls = Append(@, SilentCall(handler))]
         ELSE handler

\* createActionHandlerDecorator: decorators apply in declaration order, the
\* first declared innermost
Wrap(handler, recognized) == OuterDecorator(recognized, SilentOnNetworkConnectionError(handler))

\* a decorated handler runs: the logger calls of its catch blocks, then its outcome
RunDecorated(name, handler, seenByOuter, decorated) ==
    /\ chain.runs < MaxRuns
    /\ chain' = [runs |-> chain.runs + 1, raised |-> handler.raises,
                 seenByOuter |-> seenByOuter, seenByCaller |-> decorated.raises]
    /\ op' = name
    /\ lastArg' = handler
    /\ threw' = (decorated.raises.class # "none")
    /\ IF decorated.calls = <<>>
       THEN UNCHANGED <<logQueue, flights, clock, sinceSnapshot>>
       ELSE LET c == decorated.calls[1]
            IN  Push(exception(c.ex, c.extra, c.act).event)
    /\ UNCHANGED <<environmentContext, collectPosition, appendCalls, pending, lastCommit>>
    /\ UNCHANGED <<loggerConfig, loopPc, cycles, ajaxCalls, delivered, capturedErrors,
                   lastError, onlyNetwork, pendingAtNetFail, droppedEvents, drops>>

\* a handler decorated with SilentOnNetworkConnectionError alone is called
RunSilent(handler) ==
    RunDecorated("SilentOnNetworkConnectionError", handler, NoException,
                 SilentOnNetworkConnectionError(handler))

\* a handler decorated with SilentOnNetworkConnectionError and then an outer
\* decorator is called
RunNested(handler, recognized) ==
    RunDecorated("nested", handler, SilentOnNetworkConnectionError(handler).raises,
                 Wrap(handler, recognized))

ChainNext ==
    \/ \E handler \in Handlers : RunSilent(handler)
    \/ \E handler \in Handlers, recognized \in OuterRecognized : RunNested(handler, recognized)

ChainSpec == Init /\ [][ChainNext]_vars

\* the store called with objects larger than appendLog keeps
AppendNext ==
    \/ \E context \in LargeContextInputs : addContext(context)
    \/ appendCalls < MaxTruncAppends /\ \E inf \in LargeInfoInputs : info("@@ACTIVE", inf)
    \/ appendCalls < MaxTruncAppends /\ \E data \in LargeErrorLogEntries : error(data)

AppendSpec == Init /\ [][AppendNext]_vars

----------------------------------------------------------------------------
(* The background loop (bootstrap.tsx) *)

\* a loop that does not wait for sendEventLogs to settle (fork instead of call)
call_fork(settled) == "delay"

\* a loop that returns once sendEventLogs has settled
call_exit(settled) == IF settled THEN "exited" ELSE "call"

\* where the saga stands after `yield* call(sendEventLogs)`: the call effect
\* resumes the loop only when the promise of sendEventLogs has settled
call(settled) == IF settled THEN "delay" ELSE "call"

\* the request body ajax(...) sends, {events: logs}: the events of the array
\* at the time of the call
ajax(logs) == logs

\* a cycle that submits empty batches too
ShouldSend_always(logs) == TRUE

\* a catch block that gives up on every failure
GivesUp_any(e) == TRUE

\* `if (logs.length > 0)`: whether sendEventLogs submits the snapshot
ShouldSend(logs) == Len(logs) > 0

\* `if (e instanceof APIException)`: whether the catch block gives the buffer up
GivesUp(e) == e.class = "APIException"

\* runBackgroundLoop(loggerConfig), up to the first `yield delay(30000)`
runBackgroundLoop(config) ==
    /\ loopPc = "boot"
    /\ LET r == appendLog("OK", [action |-> "@@ENTER", info |-> <<>>, errorCode |-> Undefined,
                                 errorMessage |-> Undefined, elapsedTime |-> 0])
       IN  Push(r.event)
    /\ loggerConfig' = config
    /\ loopPc' = "delay"
    /\ op' = "runBackgroundLoop"
    /\ lastArg' = NoArg
    /\ threw' = FALSE
    /\ UNCHANGED <<environmentContext, collectPosition, appendCalls, cycles, ajaxCalls,
                   delivered, capturedErrors, lastError, pending, lastCommit, onlyNetwork,
                   pendingAtNetFail, droppedEvents, drops, chain>>

\* the delay elapses and sendEventLogs() runs up to `await ajax(...)`, or to
\* its end when there is no config or nothing to send
sendEventLogs ==
    /\ loopPc = "delay"
    /\ cycles < MaxCycles
    /\ cycles' = cycles + 1
    /\ op' = "sendEventLogs"
    /\ lastArg' = NoArg
    /\ threw' = FALSE
    /\ IF ~loggerConfig.set
       THEN /\ loopPc' = call(TRUE)
            /\ UNCHANGED <<collectPosition, pending, sinceSnapshot, ajaxCalls, flights>>
       ELSE LET c == collect(0)
            IN  /\ collectPosition' = c.collectPosition
                /\ pending' = [has |-> TRUE, events |-> c.logs]
                /\ sinceSnapshot' = <<>>
                /\ IF ShouldSend(c.logs)
                   THEN /\ ajaxCalls' = ajaxCalls + 1
                        /\ flights' = Append(flights, [logs |-> c.logs, aliased |-> c.aliased,
                                                       body |-> ajax(c.logs)])
                        /\ loopPc' = call(FALSE)
                   ELSE /\ loopPc' = call(TRUE)
                        /\ UNCHANGED <<ajaxCalls, flights>>
    /\ UNCHANGED <<environmentContext, logQueue, loggerConfig, clock, appendCalls, delivered,
                   capturedErrors, lastError, lastCommit, onlyNetwork,
                   pendingAtNetFail, droppedEvents, drops, chain>>

\* the ajax(...) promise of flight i resolves: sendEventLogs commits and returns
sendEventLogs_resolved(i) ==
    /\ i \in 1..Len(flights)
    /\ logQueue' = empty(logQueue, collectPosition)
    /\ flights' = Rebound(RemoveAt(flights, i))
    /\ delivered' = Append(delivered, flights[i].body)
    /\ pending' = NoSnapshot
    /\ lastCommit' = pending
    /\ onlyNetwork' = FALSE
    /\ lastError' = NoException
    /\ loopPc' = call(TRUE)
    /\ op' = "sendEventLogs_resolved"
    /\ lastArg' = NoArg
    /\ threw' = FALSE
    /\ UNCHANGED <<environmentContext, collectPosition, loggerConfig, clock, appendCalls,
                   cycles, ajaxCalls, capturedErrors, sinceSnapshot,
                   pendingAtNetFail, droppedEvents, drops, chain>>

\* the ajax(...) promise of flight i rejects with e: the catch block
sendEventLogs_rejected(i, e) ==
    /\ i \in 1..Len(flights)
    /\ lastError' = e
    /\ onlyNetwork' = (onlyNetwork /\ e.class = "NetworkConnectionException")
    /\ op' = "sendEventLogs_rejected"
    /\ lastArg' = NoArg
    /\ IF GivesUp(e)
       THEN LET c == collect(0)
                length == Len(c.logs)
                emptied == empty(logQueue, c.collectPosition)
                r == exception(e, <<<<"droppedLogs", Str(toString(length))>>>>, LOGGER_ACTION)
            IN  /\ collectPosition' = c.collectPosition
                /\ logQueue' = IF r.threw THEN emptied ELSE Append(emptied, r.event)
                /\ sinceSnapshot' = IF r.threw THEN <<>> ELSE <<r.event>>
                /\ clock' = IF r.threw THEN clock ELSE clock + 1
                /\ threw' = r.threw
                /\ loopPc' = IF r.threw THEN "crashed" ELSE call(TRUE)
                /\ flights' = Rebound(RemoveAt(flights, i))
                /\ pending' = NoSnapshot
                /\ lastCommit' = [has |-> TRUE, events |-> c.logs]
                /\ droppedEvents' = droppedEvents \cup Range(logQueue)
                /\ drops' = Append(drops,
                                   [events |-> SubSeq(logQueue, 1, Len(logQueue) - Len(emptied)),
                                    sinceSnapshot |-> sinceSnapshot,
                                    error |-> e, meta |-> r.event])
                /\ UNCHANGED pendingAtNetFail
       ELSE /\ flights' = RemoveAt(flights, i)
            /\ loopPc' = call(TRUE)
            /\ threw' = FALSE
            /\ pendingAtNetFail' = IF e.class = "NetworkConnectionException"
                                   THEN pendingAtNetFail \cup Range(logQueue)
                                   ELSE pendingAtNetFail
            /\ UNCHANGED <<logQueue, collectPosition, clock, sinceSnapshot, pending,
                           lastCommit, droppedEvents, drops>>
    /\ UNCHANGED <<environmentContext, loggerConfig, appendCalls, cycles, ajaxCalls,
                   delivered, capturedErrors, chain>>

Next ==
    \/ \E config \in {NoConfig, Config} : runBackgroundLoop(config)
    \/ appendCalls < MaxAppends /\ \E inf \in InfoInputs : info("@@ACTIVE", inf)
    \/ sendEventLogs
    \/ \E i \in 1..Len(flights) : sendEventLogs_resolved(i)
    \/ \E i \in 1..Len(flights), e \in TransportFailures : sendEventLogs_rejected(i, e)

Spec == Init /\ [][Next]_vars

\* the background loop alone, no other code appending
LoopNext ==
    \/ \E config \in {NoConfig, Config} : runBackgroundLoop(config)
    \/ sendEventLogs
    \/ \E i \in 1..Len(flights) : sendEventLogs_resolved(i)
    \/ \E i \in 1..Len(flights), e \in TransportFailures : sendEventLogs_rejected(i, e)

\* the loop with the timer of `yield delay(30000)` firing: a loop that stands
\* at the delay does start its next sendEventLogs
FairSpec == Init /\ [][LoopNext]_vars /\ WF_vars(sendEventLogs)

----------------------------------------------------------------------------
(* Properties of the store (LoggerImpl) under StoreSpec *)

\* the events of q that are not in evs, in q's order
Minus(q, evs) == SelectSeq(q, LAMBDA e : e \notin Range(evs))

IsSuffix(s, q) == Len(s) <= Len(q) /\ SubSeq(q, Len(q) - Len(s) + 1, Len(q)) = s

\* C1: a commit (emptyLastCollection) that follows a snapshot (collect) not yet
\* committed leaves the buffer as it was minus exactly the events that snapshot
\* returned, and the events appended after the snapshot are all still in the
\* buffer, at its tail, in the order they were appended.
C1_CommitRemovesExactlySnapshot ==
    [][(op' = "emptyLastCollection" /\ pending.has)
         => /\ logQueue' = Minus(logQueue, pending.events)
            /\ IsSuffix(sinceSnapshot, logQueue')]_vars

\* C1 witness: a commit consumed a non-empty partial snapshot while events
\* appended after the snapshot and events beyond the limit were in the buffer
C1_Witness ==
    /\ op = "emptyLastCollection"
    /\ lastCommit.has
    /\ lastCommit.events # <<>>
    /\ sinceSnapshot # <<>>
    /\ Len(logQueue) > Len(sinceSnapshot)

\* C2: a commit (emptyLastCollection) called when no snapshot (collect) has been
\* taken since construction or since the previous commit leaves the buffer
\* unchanged.
C2_CommitWithoutSnapshotIsNoop ==
    [][(op' = "emptyLastCollection" /\ ~pending.has) => logQueue' = logQueue]_vars

\* C2, the part that holds: before any snapshot has ever been taken
\* (collectPosition is still 0) a commit leaves the buffer unchanged
C2_CommitBeforeAnySnapshotIsNoop ==
    [][(op' = "emptyLastCollection" /\ collectPosition = 0) => logQueue' = logQueue]_vars

----------------------------------------------------------------------------
(* Properties of the delivery cycle (sendEventLogs) under Spec *)

IsPrefix(s, q) == Len(s) <= Len(q) /\ SubSeq(q, 1, Len(s)) = s

IsMetaEvent(ev) == ev.action = LOGGER_ACTION

DeliveredEvents == UNION {Range(delivered[i]) : i \in 1..Len(delivered)}

\* C3: while every transport call so far has failed with a
\* NetworkConnectionException, no step removes an event from the buffer (the
\* buffer only grows at its tail) and the buffer holds no meta-event.
C3_NetworkFailuresKeepBuffer ==
    [][onlyNetwork' => /\ IsPrefix(logQueue, logQueue')
                       /\ \A i \in 1..Len(logQueue') : ~IsMetaEvent(logQueue'[i])]_vars

\* C3 witness: two delivery cycles have failed with a connectivity failure and
\* the buffer still holds every event appended
C3_Witness ==
    /\ onlyNetwork
    /\ op = "sendEventLogs_rejected"
    /\ ajaxCalls >= 2
    /\ flights = <<>>
    /\ Len(logQueue) = appendCalls + 1

\* C4: when a delivery cycle ends on an APIException, the buffer holds exactly
\* one event, the meta-event appended by that cycle (the newest event, tagged
\* with the framework's logger action), whatever the size of the buffer was.
C4_ApiFailureLeavesOneMetaEvent ==
    (op = "sendEventLogs_rejected" /\ lastError.class = "APIException")
        => /\ Len(logQueue) = 1
           /\ IsMetaEvent(logQueue[1])
           /\ logQueue[1].date = clock - 1

\* C4 witness: an APIException ended a cycle whose buffer held three events
C4_Witness ==
    /\ op = "sendEventLogs_rejected"
    /\ lastError.class = "APIException"
    /\ Len(logQueue) = 1
    /\ <<"droppedLogs", Str("3")>> \in Range(logQueue[1].info)

\* C5: when the transport call succeeds and the cycle returns, the buffer is
\* exactly the sequence of events appended after the snapshot was taken, and
\* none of the events of the delivered batch is in it.
C5_SuccessCommitsSnapshot ==
    op = "sendEventLogs_resolved"
        => /\ logQueue = sinceSnapshot
           /\ Range(logQueue) \cap Range(delivered[Len(delivered)]) = {}

\* C5 witness: a successful cycle returned and left the events appended while
\* its batch was in flight
C5_Witness ==
    /\ op = "sendEventLogs_resolved"
    /\ Len(logQueue) >= 2
    /\ Len(delivered[Len(delivered)]) >= 1

NoDuplicateDelivery ==
    \A i, j \in 1..Len(delivered) :
        \A k \in 1..Len(delivered[i]), l \in 1..Len(delivered[j]) :
            delivered[i][k] = delivered[j][l] => (i = j /\ k = l)

\* C6 as stated: no event is in two delivered batches, and once a cycle
\* succeeds, every event that was pending at an earlier connectivity failure
\* is in a delivered batch.
C6_NoLossAcrossFailedAttempt ==
    /\ NoDuplicateDelivery
    /\ op = "sendEventLogs_resolved" => pendingAtNetFail \subseteq DeliveredEvents

\* C6 as amended: no event is in two delivered batches; an event that was
\* pending at a connectivity failure stays in the buffer until it is delivered
\* or discarded by a cycle that ends on an APIException; and once a cycle
\* succeeds, every such event not discarded that way is in a delivered batch.
C6_NoLossUnlessApiFailure ==
    /\ NoDuplicateDelivery
    /\ (pendingAtNetFail \ droppedEvents) \subseteq (DeliveredEvents \cup Range(logQueue))
    /\ op = "sendEventLogs_resolved"
           => (pendingAtNetFail \ droppedEvents) \subseteq DeliveredEvents

\* C6 witness: a cycle failed on connectivity, a later one succeeded, and the
\* events pending at the failure were delivered
C6_Witness ==
    /\ op = "sendEventLogs_resolved"
    /\ Cardinality(pendingAtNetFail) >= 2
    /\ droppedEvents = {}
    /\ pendingAtNetFail \subseteq DeliveredEvents

\* C7: at most one sendEventLogs invocation is suspended on its transport call,
\* and the loop is in its wait period (from where the next snapshot is taken)
\* only when none is.
C7_CyclesNeverOverlap ==
    /\ Len(flights) <= 1
    /\ loopPc = "delay" => flights = <<>>

\* C7 witness: a second cycle's batch is in flight after the first cycle ended
C7_Witness ==
    /\ Len(flights) = 1
    /\ loopPc = "call"
    /\ cycles >= 2

\* C8: a cycle's failure that is neither a NetworkConnectionException nor an
\* APIException has been handed to the process-wide error handler.
C8_OtherFailuresSurfaced ==
    (op = "sendEventLogs_rejected"
       /\ lastError.class \notin {"NetworkConnectionException", "APIException"})
        => lastError \in Range(capturedErrors)

\* C9: a cycle started without a config, or on an empty buffer, makes no
\* transport call and leaves the buffer as it is.
C9_IdleCycleTouchesNothing ==
    [][(op' = "sendEventLogs" /\ cycles' = cycles + 1
          /\ (~loggerConfig.set \/ logQueue = <<>>))
         => /\ ajaxCalls' = ajaxCalls
            /\ flights' = flights
            /\ logQueue' = logQueue]_vars

\* C9 witness: a cycle ran with a config on an empty buffer (after an earlier
\* delivery) and returned without a transport call
C9_Witness ==
    /\ op = "sendEventLogs"
    /\ loggerConfig.set
    /\ logQueue = <<>>
    /\ flights = <<>>
    /\ delivered # <<>>

\* C10: every call of info, warn or error returns normally and pushes exactly
\* one event to the tail of the buffer.
C10_AppendNeverRaises ==
    [][(op' \in {"info", "warn", "error"} /\ appendCalls' = appendCalls + 1)
         => /\ ~threw'
            /\ Len(logQueue') = Len(logQueue) + 1
            /\ IsPrefix(logQueue, logQueue')]_vars

----------------------------------------------------------------------------
(* Properties of appendLog under AppendSpec *)

FirstN(s, n) == SubSeq(s, 1, Min(Len(s), n))
Keys(entries) == [i \in 1..Len(entries) |-> entries[i][1]]
Defined(entries) == SelectSeq(entries, LAMBDA e : e[2].t # "undefined")
IsAppend(o) == o \in {"info", "warn", "error"}

\* C11: every event in the buffer has at most 20 context entries and at most 20
\* info entries; the event just appended carries the keys of the first 20
\* entries of the environment context, in iteration order, and the keys of the
\* first 20 entries of the info argument whose value is not undefined.
C11_AtMostTwentyEntries ==
    /\ \A i \in 1..Len(logQueue) :
           /\ Len(logQueue[i].context) <= 20
           /\ Len(logQueue[i].info) <= 20
    /\ (IsAppend(op) /\ ~threw)
         => LET event == logQueue[Len(logQueue)]
            IN  /\ Keys(event.context) = Keys(FirstN(environmentContext, 20))
                /\ Keys(event.info) = Keys(FirstN(Defined(lastArg), 20))

\* C11 witness: an event was appended while the environment context had more
\* than 20 entries, from an info argument with more than 20 defined entries and
\* an undefined one among its first 20; the event has 20 of each
C11_Witness ==
    /\ op = "info" /\ ~threw
    /\ Len(environmentContext) > 20
    /\ Len(Defined(lastArg)) > 20
    /\ \E j \in 1..20 : lastArg[j][2] = Undefined
    /\ Len(logQueue[Len(logQueue)].context) = 20
    /\ Len(logQueue[Len(logQueue)].info) = 20

StringValuesOf(event) ==
    {event.context[j][2] : j \in 1..Len(event.context)}
        \cup {event.info[j][2] : j \in 1..Len(event.info)}
        \cup {event.errorMessage}

\* C12: in every event in the buffer, every string value of context, every
\* string value of info, and errorMessage is at most 1000 characters long.
C12_StringsAtMost1000 ==
    \A i \in 1..Len(logQueue) :
        \A x \in StringValuesOf(logQueue[i]) : x.t = "string" => Len(x.v) <= 1000

\* C12, the part the code keeps: literal context values, info values and
\* errorMessage are cut to their first 1000 characters
C12_LiteralsAtMost1000 ==
    \A i \in 1..Len(logQueue) :
        /\ \A j \in 1..Len(logQueue[i].info) : Len(logQueue[i].info[j][2].v) <= 1000
        /\ logQueue[i].errorMessage.t = "string" => Len(logQueue[i].errorMessage.v) <= 1000
        /\ \A j \in 1..Len(logQueue[i].context) :
               logQueue[i].context[j][1] \notin {"token", "device"}
                   => Len(logQueue[i].context[j][2].v) <= 1000

----------------------------------------------------------------------------
(* Properties of collect under StoreSpec *)

\* C13: collect(maxSize) with maxSize at least the buffer's length is collect(0):
\* it returns the whole buffer, records the same position, and a following
\* emptyLastCollection leaves the same buffer.
C13_LargeLimitIsNoLimit ==
    /\ \A maxSize \in 1..MaxSize :
           maxSize >= Len(logQueue)
               => /\ collect(maxSize).logs = logQueue
                  /\ collect(maxSize) = collect(0)
                  /\ emptyLastCollection(logQueue, collect(maxSize).collectPosition)
                         = emptyLastCollection(logQueue, collect(0).collectPosition)
    /\ (op = "collect" /\ lastArg[1] >= Len(logQueue))
         => /\ pending.events = logQueue
            /\ collectPosition = collect(0).collectPosition
            /\ emptyLastCollection(logQueue, collectPosition) = <<>>

\* C13 witness: collect was called on a non-empty buffer with a maxSize larger
\* than its length and returned the whole buffer
C13_Witness ==
    /\ op = "collect"
    /\ Len(logQueue) > 0
    /\ lastArg[1] > Len(logQueue)
    /\ pending.events = logQueue
    /\ collectPosition = Len(logQueue)

\* C14: collect(maxSize) returns the first min(length, maxSize) events of the
\* buffer, in order, when maxSize > 0 and the whole buffer otherwise, and the
\* buffer is the same after the call as before it.
C14_SnapshotIsPrefixAndPure ==
    [][op' = "collect"
         => /\ logQueue' = logQueue
            /\ pending'.events = IF lastArg'[1] > 0
                                 THEN SubSeq(logQueue, 1, Min(Len(logQueue), lastArg'[1]))
                                 ELSE logQueue]_vars

\* C14 witness: collect was called with a positive maxSize smaller than the
\* buffer's length and returned that many events from the head
C14_Witness ==
    /\ op = "collect"
    /\ lastArg[1] > 0
    /\ lastArg[1] < Len(logQueue)
    /\ pending.events = SubSeq(logQueue, 1, lastArg[1])

----------------------------------------------------------------------------
(* Properties of the decorators under ChainSpec *)

\* C15: whenever a handler decorated with SilentOnNetworkConnectionError is
\* called: if the handler raises a NetworkConnectionException the call
\* completes normally and exactly one event is appended, a WARN with
\* isSilent = "true", the handler's masked parameters and the handler's action;
\* if it raises anything else the same value is raised to the caller and no
\* event is appended; if it completes no event is appended.
C15_SilentOnlyOnConnectivityFailure ==
    [][op' = "SilentOnNetworkConnectionError"
         => LET h == lastArg'
            IN  IF h.raises.class = "NetworkConnectionException"
                THEN /\ ~threw'
                     /\ chain'.seenByCaller = NoException
                     /\ Len(logQueue') = Len(logQueue) + 1
                     /\ SubSeq(logQueue', 1, Len(logQueue)) = logQueue
                     /\ LET event == logQueue'[Len(logQueue')]
                        IN  /\ event.result = "WARN"
                            /\ event.action = h.actionName
                            /\ <<"isSilent", Str("true")>> \in Range(event.info)
                            /\ <<"actionPayload", h.maskedParams>> \in Range(event.info)
                ELSE /\ chain'.seenByCaller = h.raises
                     /\ threw' = (h.raises # NoException)
                     /\ logQueue' = logQueue]_vars

\* C15 witness: a handler that raised a NetworkConnectionException was run
\* under the decorator, the call completed and the buffer's last event is the
\* WARN the decorator logged
C15_Witness ==
    /\ op = "SilentOnNetworkConnectionError"
    /\ lastArg.raises = NetworkConnectionException
    /\ ~threw
    /\ logQueue # <<>>
    /\ logQueue[Len(logQueue)].result = "WARN"
    /\ <<"isSilent", Str("true")>> \in Range(logQueue[Len(logQueue)].info)

\* C16: whenever a handler wrapped by SilentOnNetworkConnectionError (inner)
\* and then by an outer decorator is called: a NetworkConnectionException the
\* handler raises is seen neither by the outer decorator nor by the caller; a
\* failure the inner decorator does not recognize reaches the outer decorator
\* as the same value.
C16_InnerDecoratorActsFirst ==
    [][op' = "nested"
         => IF chain'.raised.class = "NetworkConnectionException"
            THEN /\ chain'.seenByOuter = NoException
                 /\ chain'.seenByCaller = NoException
                 /\ ~threw'
            ELSE chain'.seenByOuter = chain'.raised]_vars

\* C16 witness: nested decorators ran a handler whose failure the inner one
\* does not recognize and the outer one does: the outer one saw it and
\* suppressed it
C16_Witness ==
    /\ op = "nested"
    /\ chain.raised.class = "APIException"
    /\ chain.seenByOuter = chain.raised
    /\ chain.seenByCaller = NoException

\* C16 witness of the other case: the inner decorator suppressed a
\* NetworkConnectionException under an outer decorator
C16_WitnessSuppressed ==
    /\ op = "nested"
    /\ chain.raised = NetworkConnectionException
    /\ chain.seenByOuter = NoException
    /\ ~threw

----------------------------------------------------------------------------
(* Properties of the background loop under FairSpec *)

\* C17: the loop of runBackgroundLoop never leaves `while (true)`: it is always
\* before its start, at the delay, or waiting for sendEventLogs to settle; and
\* whenever a cycle has ended (on no config, an empty buffer, a delivery, or
\* any failure) the loop is at the delay again and the next cycle follows.
\* Cycles are counted up to MaxCycles.
C17_LoopNeverExits ==
    /\ [](loopPc \in {"boot", "delay", "call"})
    /\ [][op' \in {"sendEventLogs_resolved", "sendEventLogs_rejected"}
            => loopPc' = "delay"]_vars
    /\ \A n \in 1..(MaxCycles - 1) :
           (cycles = n /\ loopPc # "call") ~> (cycles = n + 1)

\* C17 witness: a cycle started after a cycle that ended on an APIException,
\* and after one that ended on a failure of another class
C17_Witness ==
    /\ op = "sendEventLogs"
    /\ cycles >= 3
    /\ drops # <<>>
    /\ lastError.class \in {"JavaScriptException", "NetworkConnectionException"}

----------------------------------------------------------------------------
(* Properties of the APIException branch of sendEventLogs under Spec *)

IsValidationError(e) == e.statusCode = 400 /\ e.errorCode = Str("VALIDATION_ERROR")

\* C18 as stated: the meta-event appended after the buffer was dropped on an
\* APIException has result ERROR, whether the failure is a 400/VALIDATION_ERROR
\* one (code API_VALIDATION_ERROR) or not (code API_ERROR_<status>).
C18_DropRecordedAtError ==
    \A k \in 1..Len(drops) :
        /\ drops[k].meta.result = "ERROR"
        /\ drops[k].meta.errorCode =
               IF IsValidationError(drops[k].error)
               THEN Str("API_VALIDATION_ERROR")
               ELSE Str("API_ERROR_" \o toString(drops[k].error.statusCode))

\* C18 amended: the meta-event has result ERROR and code API_VALIDATION_ERROR
\* after a 400/VALIDATION_ERROR APIException, and result WARN and code
\* API_ERROR_<status> after any other APIException.
C18_DropRecordedByKind ==
    \A k \in 1..Len(drops) :
        IF IsValidationError(drops[k].error)
        THEN /\ drops[k].meta.result = "ERROR"
             /\ drops[k].meta.errorCode = Str("API_VALIDATION_ERROR")
        ELSE /\ drops[k].meta.result = "WARN"
             /\ drops[k].meta.errorCode
                    = Str("API_ERROR_" \o toString(drops[k].error.statusCode))

\* C18 witness: the buffer was dropped after a status-500 APIException and the
\* meta-event in the buffer is a WARN with code API_ERROR_500
C18_Witness ==
    /\ op = "sendEventLogs_rejected"
    /\ lastError = APIException(500, Undefined)
    /\ logQueue # <<>>
    /\ logQueue[Len(logQueue)] = drops[Len(drops)].meta
    /\ logQueue[Len(logQueue)].result = "WARN"
    /\ logQueue[Len(logQueue)].errorCode = Str("API_ERROR_500")

\* how many times the event dated d occurs in the sequence of events q
Occurrences(q, d) == Cardinality({i \in 1..Len(q) : q[i].date = d})

RECURSIVE SumOver(_, _, _)
SumOver(batches, d, k) ==
    IF k > Len(batches) THEN 0
    ELSE Occurrences(batches[k], d) + SumOver(batches, d, k + 1)

DroppedBatches == [k \in 1..Len(drops) |-> drops[k].events]

\* C19: at every moment every event appended so far is in exactly one place:
\* in the buffer, in one delivered batch, or among the events one APIException
\* cycle discarded; the meta-event of each such cycle carries the number of
\* events discarded as droppedLogs and the action "@@framework/logger"; and the
\* events discarded are the whole buffer at the rejection, the events appended
\* since the cycle's snapshot included.
C19_EventAccounting ==
    /\ [](\A d \in 0..(clock - 1) :
            Occurrences(logQueue, d) + SumOver(delivered, d, 1)
                + SumOver(DroppedBatches, d, 1) = 1)
    /\ [](\A k \in 1..Len(drops) :
            /\ <<"droppedLogs", Str(toString(Len(drops[k].events)))>>
                   \in Range(drops[k].meta.info)
            /\ drops[k].meta.action = "@@framework/logger")
    /\ [][(op' = "sendEventLogs_rejected" /\ lastError'.class = "APIException")
            => /\ drops'[Len(drops')].events = logQueue
               /\ logQueue' = <<drops'[Len(drops')].meta>>]_vars

\* C19 witness: one batch was delivered, and a later cycle ended on an
\* APIException and discarded two events, one of them appended while the
\* batch was in flight; the meta-event says droppedLogs = "2"
C19_Witness ==
    /\ op = "sendEventLogs_rejected"
    /\ delivered # <<>>
    /\ drops # <<>>
    /\ Len(drops[Len(drops)].events) = 2
    /\ drops[Len(drops)].sinceSnapshot # <<>>
    /\ Range(drops[Len(drops)].sinceSnapshot) \subseteq Range(drops[Len(drops)].events)
    /\ <<"droppedLogs", Str("2")>> \in Range(logQueue[Len(logQueue)].info)

----------------------------------------------------------------------------
(* Properties of an outstanding snapshot under Spec *)

\* C20: while sendEventLogs is suspended on its transport call, the array
\* collect() returned to it holds the same events as when it was returned:
\* appends made meanwhile are not in it.
C20_SnapshotStableWhileOutstanding ==
    \A i \in 1..Len(flights) :
        /\ flights[i].logs = pending.events
        /\ \A j \in 1..Len(sinceSnapshot) : sinceSnapshot[j] \notin Range(flights[i].logs)

\* C20, the part the code keeps: the events in the buffer when collect() was
\* called stay at the head of the returned array, in order
C20_SnapshotOnlyGrows ==
    \A i \in 1..Len(flights) : IsPrefix(pending.events, flights[i].logs)

====
